---- MODULE Spec2Model ----
(***************************************************************************)
(* Model of homeassistant/components/tractive/sensor.py: the sensor        *)
(* descriptor table SENSOR_TYPES, the TractiveSensor entity (constructor   *)
(* and handle_status_update) and async_setup_entry.                        *)
(*                                                                         *)
(* Text is modelled in two ways.  Identifiers, keys and signal names are   *)
(* TLA+ strings, composed with \o exactly as the f-strings of the source   *)
(* compose them.  Event values are tagged records so that a string, a      *)
(* number and None can live in one set; the characters of a string value   *)
(* are kept as a sequence so that str.lower() is computed per character.   *)
(*                                                                         *)
(* Spec is the setup followed by dispatcher sends over lists of distinct   *)
(* devices; SetupSpec is the setup alone over every list of trackables,    *)
(* lists that repeat an id included.  The base class TractiveEntity, the   *)
(* host's dispatcher and the values of the imported constants are not part *)
(* of sensor.py and are modelled from the description of the module.       *)
(***************************************************************************)
EXTENDS Integers, Sequences, FiniteSets, TLC

(***************************************************************************)
(* Bounds of the model.                                                    *)
(***************************************************************************)
MaxTrackables == 2
MaxEvents == 2

(***************************************************************************)
(* Values of type StateType carried by events and stored as state.         *)
(***************************************************************************)
Str(chars) == [t |-> "str", s |-> chars, n |-> 0]
IntV(num) == [t |-> "int", s |-> <<>>, n |-> num]
NoneV == [t |-> "none", s |-> <<>>, n |-> 0]
\* the attribute _attr_native_value before any assignment by this module
Unset == [t |-> "unset", s |-> <<>>, n |-> 0]

UpperChars == {"G", "O", "D"}

\* str.lower() on one character of the modelled alphabet
LowerChar(c) ==
    CASE c = "G" -> "g"
      [] c = "O" -> "o"
      [] c = "D" -> "d"
      [] OTHER -> c

\* str.lower()
LowerStr(chars) == [j \in 1..Len(chars) |-> LowerChar(chars[j])]

(***************************************************************************)
(* Names imported from homeassistant.const and .const.                     *)
(***************************************************************************)
ATTR_BATTERY_LEVEL == "battery_level"
ATTR_TRACKER_STATE == "tracker_state"
ATTR_MINUTES_ACTIVE == "minutes_active"
ATTR_MINUTES_REST == "minutes_rest"
ATTR_CALORIES == "calories"
ATTR_DAILY_GOAL == "daily_goal"
ATTR_MINUTES_DAY_SLEEP == "minutes_day_sleep"
ATTR_MINUTES_NIGHT_SLEEP == "minutes_night_sleep"
ATTR_SLEEP_LABEL == "sleep_label"
ATTR_ACTIVITY_LABEL == "activity_label"
TRACKER_HARDWARE_STATUS_UPDATED == "tractive_tracker_hardware_status_updated"
TRACKER_ACTIVITY_STATUS_UPDATED == "tractive_tracker_activity_status_updated"
TRACKER_WELLNESS_STATUS_UPDATED == "tractive_tracker_wellness_status_updated"

(***************************************************************************)
(* TractiveSensorEntityDescription: the fields this module reads.  The     *)
(* defaults are hardware_sensor = False and value_fn = lambda state: state.*)
(***************************************************************************)
TractiveSensorEntityDescription(key, signal_prefix, hardware_sensor, value_fn) ==
    [key |-> key, signal_prefix |-> signal_prefix,
     hardware_sensor |-> hardware_sensor, value_fn |-> value_fn]

\* the default value_fn: lambda state: state
DefaultValueFn(state) == state

LabelValueFn_NoLower(state) == state

\* lambda state: state.lower() if isinstance(state, str) else state
LabelValueFn(state) ==
    IF state.t = "str" THEN Str(LowerStr(state.s)) ELSE state

\* description.value_fn(state)
ValueFn(description, state) ==
    IF description.value_fn = "lower" THEN LabelValueFn(state)
    ELSE DefaultValueFn(state)

SENSOR_TYPES_DuplicateKey ==
    << TractiveSensorEntityDescription(ATTR_BATTERY_LEVEL, TRACKER_HARDWARE_STATUS_UPDATED, TRUE, "default"),
       TractiveSensorEntityDescription(ATTR_TRACKER_STATE, TRACKER_HARDWARE_STATUS_UPDATED, TRUE, "default"),
       TractiveSensorEntityDescription(ATTR_MINUTES_ACTIVE, TRACKER_ACTIVITY_STATUS_UPDATED, FALSE, "default"),
       TractiveSensorEntityDescription(ATTR_MINUTES_REST, TRACKER_WELLNESS_STATUS_UPDATED, FALSE, "default"),
       TractiveSensorEntityDescription(ATTR_CALORIES, TRACKER_WELLNESS_STATUS_UPDATED, FALSE, "default"),
       TractiveSensorEntityDescription(ATTR_DAILY_GOAL, TRACKER_ACTIVITY_STATUS_UPDATED, FALSE, "default"),
       TractiveSensorEntityDescription(ATTR_MINUTES_DAY_SLEEP, TRACKER_WELLNESS_STATUS_UPDATED, FALSE, "default"),
       TractiveSensorEntityDescription(ATTR_MINUTES_NIGHT_SLEEP, TRACKER_WELLNESS_STATUS_UPDATED, FALSE, "default"),
       TractiveSensorEntityDescription(ATTR_SLEEP_LABEL, TRACKER_WELLNESS_STATUS_UPDATED, FALSE, "lower"),
       TractiveSensorEntityDescription(ATTR_SLEEP_LABEL, TRACKER_WELLNESS_STATUS_UPDATED, FALSE, "lower") >>

SENSOR_TYPES_StateNotHardware ==
    << TractiveSensorEntityDescription(ATTR_BATTERY_LEVEL, TRACKER_HARDWARE_STATUS_UPDATED, TRUE, "default"),
       TractiveSensorEntityDescription(ATTR_TRACKER_STATE, TRACKER_HARDWARE_STATUS_UPDATED, FALSE, "default"),
       TractiveSensorEntityDescription(ATTR_MINUTES_ACTIVE, TRACKER_ACTIVITY_STATUS_UPDATED, FALSE, "default"),
       TractiveSensorEntityDescription(ATTR_MINUTES_REST, TRACKER_WELLNESS_STATUS_UPDATED, FALSE, "default"),
       TractiveSensorEntityDescription(ATTR_CALORIES, TRACKER_WELLNESS_STATUS_UPDATED, FALSE, "default"),
       TractiveSensorEntityDescription(ATTR_DAILY_GOAL, TRACKER_ACTIVITY_STATUS_UPDATED, FALSE, "default"),
       TractiveSensorEntityDescription(ATTR_MINUTES_DAY_SLEEP, TRACKER_WELLNESS_STATUS_UPDATED, FALSE, "default"),
       TractiveSensorEntityDescription(ATTR_MINUTES_NIGHT_SLEEP, TRACKER_WELLNESS_STATUS_UPDATED, FALSE, "default"),
       TractiveSensorEntityDescription(ATTR_SLEEP_LABEL, TRACKER_WELLNESS_STATUS_UPDATED, FALSE, "lower"),
       TractiveSensorEntityDescription(ATTR_ACTIVITY_LABEL, TRACKER_WELLNESS_STATUS_UPDATED, FALSE, "lower") >>

\* the descriptor table, in source order
SENSOR_TYPES ==
    << TractiveSensorEntityDescription(ATTR_BATTERY_LEVEL, TRACKER_HARDWARE_STATUS_UPDATED, TRUE, "default"),
       TractiveSensorEntityDescription(ATTR_TRACKER_STATE, TRACKER_HARDWARE_STATUS_UPDATED, TRUE, "default"),
       TractiveSensorEntityDescription(ATTR_MINUTES_ACTIVE, TRACKER_ACTIVITY_STATUS_UPDATED, FALSE, "default"),
       TractiveSensorEntityDescription(ATTR_MINUTES_REST, TRACKER_WELLNESS_STATUS_UPDATED, FALSE, "default"),
       TractiveSensorEntityDescription(ATTR_CALORIES, TRACKER_WELLNESS_STATUS_UPDATED, FALSE, "default"),
       TractiveSensorEntityDescription(ATTR_DAILY_GOAL, TRACKER_ACTIVITY_STATUS_UPDATED, FALSE, "default"),
       TractiveSensorEntityDescription(ATTR_MINUTES_DAY_SLEEP, TRACKER_WELLNESS_STATUS_UPDATED, FALSE, "default"),
       TractiveSensorEntityDescription(ATTR_MINUTES_NIGHT_SLEEP, TRACKER_WELLNESS_STATUS_UPDATED, FALSE, "default"),
       TractiveSensorEntityDescription(ATTR_SLEEP_LABEL, TRACKER_WELLNESS_STATUS_UPDATED, FALSE, "lower"),
       TractiveSensorEntityDescription(ATTR_ACTIVITY_LABEL, TRACKER_WELLNESS_STATUS_UPDATED, FALSE, "lower") >>

(***************************************************************************)
(* Inputs: the trackables the client supplies and the events it publishes. *)
(***************************************************************************)
TrackableIds == {"pet1", "pet_2", "pet1_minutes"}
TrackerIds == {"TRK1", "TRK2", "pet1"}

\* the devices of the runs with events: (trackable id, tracker id)
Devices == { <<"pet1", "TRK1">>, <<"pet_2", "TRK2">> }

\* A Trackables object: ref is the object's identity (its place in the
\* list of the entry's storage), the two dicts carry the "_id" fields read.
Trackables(ref, trackable_id, tracker_id) ==
    [ref |-> ref, trackable |-> [id |-> trackable_id],
     tracker_details |-> [id |-> tracker_id]]

\* the lists of at most MaxTrackables objects with ids from idPairs; a list
\* may hold the same ids twice
TrackableLists(idPairs) ==
    UNION { { [j \in 1..m |-> Trackables(j, ids[j][1], ids[j][2])] :
              ids \in [1..m -> idPairs] } :
            m \in 0..MaxTrackables }

\* the lists of the runs with events: distinct devices, in any order
DeviceLists ==
    { list \in TrackableLists(Devices) :
        \A j1 \in 1..Len(list), j2 \in 1..Len(list) :
            j1 # j2 => list[j1].trackable.id # list[j2].trackable.id }

EventValues == << IntV(42), Str(<<"G", "o", "O", "D">>), NoneV >>

HardwareKeys == << ATTR_BATTERY_LEVEL, ATTR_TRACKER_STATE >>
ActivityKeys == << ATTR_MINUTES_ACTIVE, ATTR_DAILY_GOAL >>
WellnessKeys == << ATTR_MINUTES_REST, ATTR_CALORIES, ATTR_MINUTES_DAY_SLEEP,
                   ATTR_MINUTES_NIGHT_SLEEP, ATTR_SLEEP_LABEL, ATTR_ACTIVITY_LABEL >>

Range(seq) == { seq[j] : j \in 1..Len(seq) }
IndexOf(seq, x) == CHOOSE j \in 1..Len(seq) : seq[j] = x

\* an event record: the keys of one update category, the j-th key carrying
\* the (v + j)-th value of EventValues, cyclically
Payload(keys, v) ==
    [k \in Range(keys) |->
        EventValues[((v + IndexOf(keys, k)) % Len(EventValues)) + 1]]

EmptyEvent == [k \in {} |-> NoneV]

Events ==
    {EmptyEvent} \cup
    { Payload(keys, v) : keys \in {HardwareKeys, ActivityKeys, WellnessKeys},
                         v \in 1..Len(EventValues) }

Signals ==
    { prefix \o "-" \o id :
        prefix \in { TRACKER_HARDWARE_STATUS_UPDATED,
                     TRACKER_ACTIVITY_STATUS_UPDATED,
                     TRACKER_WELLNESS_STATUS_UPDATED },
        id \in TrackableIds \cup TrackerIds }

(***************************************************************************)
(* State.                                                                  *)
(***************************************************************************)
VARIABLES
    trackables,      \* hass.data[DOMAIN][entry_id][TRACKABLES]
    setup_done,      \* async_setup_entry has run
    entities,        \* the entity objects built by async_setup_entry
    add_calls,       \* arguments of the calls of async_add_entities (entity refs)
    pending_event,   \* event of the dispatcher send in progress
    pending_targets, \* callbacks of that send not yet invoked
    sent,            \* number of dispatcher sends so far
    result,          \* how the last call of handle_status_update ended
    delivered,       \* history: entity -> number of calls of handle_status_update on it
    last_good        \* history: entity -> keyed value of the last event that had the key

vars == << trackables, setup_done, entities, add_calls, pending_event,
           pending_targets, sent, result, delivered, last_good >>

NoEvent == [t |-> "noevent", s |-> <<>>, n |-> 0]

(***************************************************************************)
(* TractiveEntity (base class): constructor and shared handler.            *)
(***************************************************************************)
\* TractiveEntity.__init__(client, trackable, tracker_details, dispatcher_signal)
TractiveEntity(trackable, tracker_details, dispatcher_signal) ==
    [trackable_id |-> trackable.id, tracker_id |-> tracker_details.id,
     dispatcher_signal |-> dispatcher_signal]

\* TractiveEntity.handle_status_update: mark available, write the state
TractiveEntity_handle_status_update(self, event) ==
    [self EXCEPT !.available = TRUE, !.written = self.native_value]

(***************************************************************************)
(* TractiveSensor.                                                         *)
(***************************************************************************)
DispatcherSignal_AlwaysTrackable(item, description) ==
    description.signal_prefix \o "-" \o item.trackable.id

\* the signal computed at the top of TractiveSensor.__init__
DispatcherSignal(item, description) ==
    IF description.hardware_sensor
    THEN description.signal_prefix \o "-" \o item.tracker_details.id
    ELSE description.signal_prefix \o "-" \o item.trackable.id

UniqueId_FromTracker(item, description) ==
    item.tracker_details.id \o "_" \o description.key

\* f"{item.trackable['_id']}_{description.key}"
UniqueId(item, description) ==
    item.trackable.id \o "_" \o description.key

InitialAvailable_True == TRUE

\* self._attr_available = False
InitialAvailable == FALSE

\* TractiveSensor.__init__(client, item, description)
TractiveSensor(item, description) ==
    LET base == TractiveEntity(item.trackable, item.tracker_details,
                               DispatcherSignal(item, description))
    IN [item_ref |-> item.ref,
        trackable_id |-> base.trackable_id,
        tracker_id |-> base.tracker_id,
        dispatcher_signal |-> base.dispatcher_signal,
        unique_id |-> UniqueId(item, description),
        available |-> InitialAvailable,
        entity_description |-> description,
        native_value |-> Unset,
        written |-> Unset]

handle_status_update_BaseFirst(self, event) ==
    IF self.entity_description.key \in DOMAIN event
    THEN [raised |-> FALSE,
          self |-> [TractiveEntity_handle_status_update(self, event) EXCEPT
                      !.native_value = ValueFn(self.entity_description,
                                               event[self.entity_description.key])]]
    ELSE [raised |-> TRUE, self |-> self]

handle_status_update_Fallback(self, event) ==
    LET value == IF self.entity_description.key \in DOMAIN event
                 THEN event[self.entity_description.key] ELSE NoneV
    IN [raised |-> FALSE,
        self |-> TractiveEntity_handle_status_update(
                    [self EXCEPT !.native_value =
                        ValueFn(self.entity_description, value)], event)]

handle_status_update_KeepFirst(self, event) ==
    IF self.entity_description.key \in DOMAIN event
    THEN [raised |-> FALSE,
          self |-> TractiveEntity_handle_status_update(
                      [self EXCEPT !.native_value =
                          IF self.native_value = Unset
                          THEN ValueFn(self.entity_description,
                                       event[self.entity_description.key])
                          ELSE self.native_value], event)]
    ELSE [raised |-> TRUE, self |-> self]

\* TractiveSensor.handle_status_update(event): the entity after the call and
\* whether the call ended in KeyError (event[key] with the key absent raises
\* before anything is assigned)
handle_status_update(self, event) ==
    IF self.entity_description.key \in DOMAIN event
    THEN [raised |-> FALSE,
          self |-> TractiveEntity_handle_status_update(
                      [self EXCEPT !.native_value =
                          ValueFn(self.entity_description,
                                  event[self.entity_description.key])], event)]
    ELSE [raised |-> TRUE, self |-> self]

(***************************************************************************)
(* async_setup_entry.                                                      *)
(***************************************************************************)
RECURSIVE Flatten(_)
Flatten(lists) ==
    IF lists = <<>> THEN <<>> ELSE Head(lists) \o Flatten(Tail(lists))

BuildEntities_Zip(items) ==
    [k \in 1..Len(items) |-> TractiveSensor(items[k], SENSOR_TYPES[k])]

\* [TractiveSensor(client, item, description)
\*  for description in SENSOR_TYPES for item in trackables]
BuildEntities(items) ==
    Flatten([d \in 1..Len(SENSOR_TYPES) |->
                [j \in 1..Len(items) |-> TractiveSensor(items[j], SENSOR_TYPES[d])]])

async_setup_entry ==
    /\ ~setup_done
    /\ setup_done' = TRUE
    /\ entities' = BuildEntities(trackables)
    /\ add_calls' = Append(add_calls, [k \in 1..Len(entities') |-> k])
    /\ delivered' = [k \in 1..Len(entities') |-> 0]
    /\ last_good' = [k \in 1..Len(entities') |-> NoEvent]
    /\ UNCHANGED << trackables, pending_event, pending_targets, sent, result >>

(***************************************************************************)
(* The host's dispatcher: a send on a signal invokes, in subscription      *)
(* order, the callback of every entity connected to that signal.           *)
(***************************************************************************)
RECURSIVE Listeners(_, _, _)
Listeners(ents, signal, k) ==
    IF k > Len(ents) THEN <<>>
    ELSE (IF ents[k].dispatcher_signal = signal THEN <<k>> ELSE <<>>)
         \o Listeners(ents, signal, k + 1)

Dispatch(signal, event) ==
    /\ setup_done
    /\ pending_targets = <<>>
    /\ sent < MaxEvents
    /\ sent' = sent + 1
    /\ pending_targets' = Listeners(entities, signal, 1)
    /\ pending_event' = IF pending_targets' = <<>> THEN EmptyEvent ELSE event
    /\ UNCHANGED << trackables, setup_done, entities, add_calls, result,
                    delivered, last_good >>

\* the dispatcher invokes the next callback: one whole call of
\* handle_status_update; an exception is logged by the host and the
\* send goes on with the next callback
Deliver ==
    /\ pending_targets # <<>>
    /\ LET i == Head(pending_targets)
           key == entities[i].entity_description.key
           r == handle_status_update(entities[i], pending_event)
       IN /\ entities' = [entities EXCEPT ![i] = r.self]
          /\ result' = IF r.raised THEN "KeyError" ELSE "ok"
          /\ delivered' = [delivered EXCEPT ![i] = @ + 1]
          /\ last_good' = IF key \in DOMAIN pending_event
                          THEN [last_good EXCEPT ![i] = pending_event[key]]
                          ELSE last_good
    /\ pending_targets' = Tail(pending_targets)
    /\ pending_event' = IF pending_targets' = <<>> THEN EmptyEvent ELSE pending_event
    /\ UNCHANGED << trackables, setup_done, add_calls, sent >>

Idle ==
    /\ setup_done = FALSE
    /\ entities = <<>>
    /\ add_calls = <<>>
    /\ pending_event = EmptyEvent
    /\ pending_targets = <<>>
    /\ sent = 0
    /\ result = "none"
    /\ delivered = <<>>
    /\ last_good = <<>>

Init ==
    /\ trackables \in DeviceLists
    /\ Idle

Next ==
    \/ async_setup_entry
    \/ \E signal \in Signals, event \in Events : Dispatch(signal, event)
    \/ Deliver

Spec == Init /\ [][Next]_vars

\* The setup alone, over every combination of trackable and tracker ids.
SetupInit ==
    /\ trackables \in TrackableLists(TrackableIds \X TrackerIds)
    /\ Idle

SetupNext == async_setup_entry

SetupSpec == SetupInit /\ [][SetupNext]_vars

(***************************************************************************)
(* Properties.                                                             *)
(***************************************************************************)
Descriptors == 1..Len(SENSOR_TYPES)
Items == 1..Len(trackables)
Ents == 1..Len(entities)
LabelKeys == {ATTR_SLEEP_LABEL, ATTR_ACTIVITY_LABEL}
Keys(descriptions) == { descriptions[d].key : d \in 1..Len(descriptions) }

\* the step is one call of handle_status_update, on entity Head(pending_targets)
IsCall == pending_targets # <<>> /\ pending_targets' = Tail(pending_targets)

\* C1: for every descriptor and every trackable the entity built for the pair
\* has the dispatch signal "<signal_prefix>-<tracker hardware id>" when the
\* descriptor has hardware_sensor = true and "<signal_prefix>-<trackable id>"
\* otherwise, and entities with the same prefix, flag and selected id have
\* the same signal.
C1_DispatchSignal ==
    setup_done =>
        /\ \A d \in Descriptors, j \in Items :
              \E k \in Ents :
                 /\ entities[k].entity_description = SENSOR_TYPES[d]
                 /\ entities[k].item_ref = j
                 /\ entities[k].dispatcher_signal =
                       SENSOR_TYPES[d].signal_prefix \o "-" \o
                       (IF SENSOR_TYPES[d].hardware_sensor
                        THEN trackables[j].tracker_details.id
                        ELSE trackables[j].trackable.id)
        /\ \A k1 \in Ents, k2 \in Ents :
              LET d1 == entities[k1].entity_description
                  d2 == entities[k2].entity_description
                  id1 == IF d1.hardware_sensor THEN entities[k1].tracker_id
                         ELSE entities[k1].trackable_id
                  id2 == IF d2.hardware_sensor THEN entities[k2].tracker_id
                         ELSE entities[k2].trackable_id
              IN (d1.signal_prefix = d2.signal_prefix
                  /\ d1.hardware_sensor = d2.hardware_sensor /\ id1 = id2)
                 => entities[k1].dispatcher_signal = entities[k2].dispatcher_signal

\* a setup with a trackable whose tracker id differs from its trackable id,
\* so that the two branches of the constructor give different signals
C1_Witness ==
    /\ setup_done
    /\ \E k1 \in Ents, k2 \in Ents :
          /\ entities[k1].item_ref = entities[k2].item_ref
          /\ entities[k1].tracker_id # entities[k1].trackable_id
          /\ entities[k1].entity_description.hardware_sensor
          /\ ~entities[k2].entity_description.hardware_sensor
          /\ entities[k1].dispatcher_signal =
                TRACKER_HARDWARE_STATUS_UPDATED \o "-" \o entities[k1].tracker_id
          /\ entities[k2].dispatcher_signal =
                TRACKER_WELLNESS_STATUS_UPDATED \o "-" \o entities[k2].trackable_id

\* C2: a call of handle_status_update with an event that contains the
\* descriptor's key sets the state to value_fn(event[key]) (exactly
\* event[key] under the default transform), then runs the base handler's
\* bookkeeping on the new state: availability true and the new state
\* written; the event {"battery_level": 42, ...} makes the battery entity's
\* state 42.
C2_StatusUpdate ==
    [][ IsCall =>
          LET i == Head(pending_targets)
              description == entities[i].entity_description
              key == description.key
          IN key \in DOMAIN pending_event =>
                /\ result' = "ok"
                /\ entities'[i].native_value = ValueFn(description, pending_event[key])
                /\ (description.value_fn = "default"
                      => entities'[i].native_value = pending_event[key])
                /\ entities'[i].available = TRUE
                /\ entities'[i].written = entities'[i].native_value
                /\ (key = ATTR_BATTERY_LEVEL /\ pending_event[key] = IntV(42)
                      => entities'[i].native_value = IntV(42))
      ]_vars

\* the battery-level entity after the event {"battery_level": 42, ...}
C2_Witness ==
    \E k \in Ents :
        /\ entities[k].entity_description.key = ATTR_BATTERY_LEVEL
        /\ last_good[k] = IntV(42)
        /\ entities[k].native_value = IntV(42)
        /\ entities[k].written = IntV(42)
        /\ entities[k].available

CasePairs == { <<"G", "g">>, <<"O", "o">>, <<"D", "d">> }

\* lower is the string original with every upper-case character replaced
\* by its lower-case partner and every other character kept
IsLowerCased(original, lower) ==
    /\ Len(lower) = Len(original)
    /\ \A j \in 1..Len(original) :
          IF original[j] \in UpperChars
          THEN << original[j], lower[j] >> \in CasePairs
          ELSE lower[j] = original[j]

\* C3: for the sleep-label and activity-label descriptors a string value is
\* stored lower-cased and a non-string value (a number, None) is stored
\* unchanged; every other descriptor stores every value unchanged, mixed-case
\* strings included.
C3_LabelLowerCase ==
    \A k \in Ents :
        last_good[k] # NoEvent =>
            IF entities[k].entity_description.key \in LabelKeys
               /\ last_good[k].t = "str"
            THEN /\ entities[k].native_value.t = "str"
                 /\ IsLowerCased(last_good[k].s, entities[k].native_value.s)
                 /\ (last_good[k].s = <<"G", "o", "O", "D">>
                       => entities[k].native_value.s = <<"g", "o", "o", "d">>)
            ELSE entities[k].native_value = last_good[k]

\* one wellness event after which a label entity holds the lower-cased
\* string, the other label entity a non-string unchanged and a non-label
\* entity the mixed-case string unchanged
C3_Witness ==
    \E k1 \in Ents, k2 \in Ents, k3 \in Ents :
        /\ entities[k1].entity_description.key = ATTR_SLEEP_LABEL
        /\ last_good[k1] = Str(<<"G", "o", "O", "D">>)
        /\ entities[k1].native_value = Str(<<"g", "o", "o", "d">>)
        /\ entities[k2].entity_description.key = ATTR_ACTIVITY_LABEL
        /\ last_good[k2] = NoneV
        /\ entities[k2].native_value = NoneV
        /\ entities[k3].entity_description.key = ATTR_CALORIES
        /\ last_good[k3] = Str(<<"G", "o", "O", "D">>)
        /\ entities[k3].native_value = Str(<<"G", "o", "O", "D">>)

\* C4: with N descriptors and M trackables async_setup_entry passes exactly
\* N*M entities to async_add_entities in a single call, exactly one for each
\* (descriptor, trackable) pair; with M = 0 it passes an empty list.
C4_CrossProduct ==
    /\ ~setup_done => add_calls = <<>>
    /\ setup_done =>
          /\ Len(add_calls) = 1
          /\ Len(add_calls[1]) = Len(SENSOR_TYPES) * Len(trackables)
          /\ Len(entities) = Len(SENSOR_TYPES) * Len(trackables)
          /\ \A k \in Ents :
                Cardinality({ c \in 1..Len(add_calls[1]) : add_calls[1][c] = k }) = 1
          /\ \A d \in Descriptors, j \in Items :
                Cardinality({ k \in Ents :
                                /\ entities[k].entity_description = SENSOR_TYPES[d]
                                /\ entities[k].item_ref = j }) = 1
          /\ (Len(trackables) = 0 => add_calls[1] = <<>>)

\* a setup with two trackables
C4_Witness ==
    /\ setup_done
    /\ Len(trackables) = 2
    /\ Len(add_calls) = 1
    /\ Len(add_calls[1]) = 2 * Len(SENSOR_TYPES)

\* C5: every entity's unique identifier is "<trackable_id>_<descriptor_key>"
\* (the trackable id, also for hardware-scoped descriptors), and when the
\* trackable ids are pairwise distinct no two entities of the setup have the
\* same unique identifier.
C5_UniqueId ==
    setup_done =>
        /\ \A k \in Ents :
              entities[k].unique_id =
                 trackables[entities[k].item_ref].trackable.id \o "_" \o
                 entities[k].entity_description.key
        /\ (\A j1 \in Items, j2 \in Items :
               j1 # j2 => trackables[j1].trackable.id # trackables[j2].trackable.id)
           => \A k1 \in Ents, k2 \in Ents :
                 k1 # k2 => entities[k1].unique_id # entities[k2].unique_id

\* a setup with two trackables of distinct trackable ids, one of them with a
\* tracker id different from its trackable id
C5_Witness ==
    /\ setup_done
    /\ Len(trackables) = 2
    /\ trackables[1].trackable.id # trackables[2].trackable.id
    /\ \E k \in Ents :
          /\ entities[k].entity_description.hardware_sensor
          /\ entities[k].tracker_id # entities[k].trackable_id
          /\ entities[k].unique_id = entities[k].trackable_id \o "_" \o ATTR_BATTERY_LEVEL

\* C6 as stated: an entity is unavailable until the first event delivered on
\* its signal and available once handle_status_update has handled that event.
C6_AvailableAfterFirstEvent ==
    \A k \in Ents : entities[k].available = (delivered[k] > 0)

\* C6: an entity's availability is false from construction until the first
\* event containing the descriptor's key is handled by handle_status_update,
\* and true immediately after that event has been handled.
C6_AvailableAfterFirstKeyedEvent ==
    \A k \in Ents : entities[k].available = (last_good[k] # NoEvent)

\* one entity available right after its first event, which had the key, while
\* another entity has had no event and is unavailable
C6_Witness ==
    \E k1 \in Ents, k2 \in Ents :
        /\ delivered[k1] = 1
        /\ last_good[k1] # NoEvent
        /\ entities[k1].available
        /\ delivered[k2] = 0
        /\ ~entities[k2].available

\* C7: a call of handle_status_update with an event that lacks the
\* descriptor's key ends in a lookup failure; no fallback value is stored,
\* state and availability stay as they were and the base handler's
\* bookkeeping does not run.
C7_MissingKey ==
    [][ IsCall =>
          LET i == Head(pending_targets)
              key == entities[i].entity_description.key
          IN key \notin DOMAIN pending_event =>
                /\ result' = "KeyError"
                /\ entities'[i].native_value = entities[i].native_value
                /\ entities'[i].available = entities[i].available
                /\ entities'[i].written = entities[i].written
                /\ entities' = entities
      ]_vars

\* an entity whose only events lacked its key: the last call raised, and the
\* entity is still without state and unavailable
C7_Witness ==
    /\ result = "KeyError"
    /\ \E k \in Ents :
          /\ delivered[k] > 0
          /\ last_good[k] = NoEvent
          /\ entities[k].native_value = Unset
          /\ entities[k].written = Unset
          /\ ~entities[k].available

NamedKeys ==
    { ATTR_BATTERY_LEVEL, ATTR_TRACKER_STATE, ATTR_MINUTES_ACTIVE,
      ATTR_MINUTES_REST, ATTR_CALORIES, ATTR_DAILY_GOAL, ATTR_MINUTES_DAY_SLEEP,
      ATTR_MINUTES_NIGHT_SLEEP, ATTR_SLEEP_LABEL, ATTR_ACTIVITY_LABEL }

PairwiseDistinctKeys ==
    \A d1 \in Descriptors, d2 \in Descriptors :
        d1 # d2 => SENSOR_TYPES[d1].key # SENSOR_TYPES[d2].key

\* C8 as stated: SENSOR_TYPES has exactly nine descriptors, with pairwise
\* distinct keys, and a setup builds nine entities for each trackable.
C8_NineDescriptors ==
    /\ Len(SENSOR_TYPES) = 9
    /\ PairwiseDistinctKeys
    /\ setup_done =>
          \A j \in Items :
             Cardinality({ k \in Ents : entities[k].item_ref = j }) = 9

\* C8: SENSOR_TYPES is a static enumeration of exactly ten descriptors, one
\* for each of battery level, tracker state, active minutes, rest minutes,
\* calories, daily goal minutes, day-sleep minutes, night-sleep minutes,
\* sleep label and activity label, with pairwise distinct keys; a setup
\* builds entities with the ten keys for each trackable.
C8_TenDescriptors ==
    /\ Len(SENSOR_TYPES) = 10
    /\ Keys(SENSOR_TYPES) = NamedKeys
    /\ PairwiseDistinctKeys
    /\ setup_done =>
          \A j \in Items :
             /\ Cardinality({ k \in Ents : entities[k].item_ref = j }) = 10
             /\ Cardinality({ entities[k].entity_description.key :
                                k \in { c \in Ents : entities[c].item_ref = j } }) = 10

\* a setup that built the entities of at least one trackable
C8_Witness ==
    /\ setup_done
    /\ Len(trackables) >= 1
    /\ { entities[k].entity_description.key :
           k \in { c \in Ents : entities[c].item_ref = 1 } } = NamedKeys

\* C9: each entity's state is value_fn of the keyed value of the most recent
\* event with the key that it handled (unset if none); a call on one entity
\* changes no other entity, and no step after setup changes an entity's
\* unique identifier, dispatch signal or descriptor.
C9_StateInv ==
    \A k \in Ents :
        entities[k].native_value =
            IF last_good[k] = NoEvent THEN Unset
            ELSE ValueFn(entities[k].entity_description, last_good[k])

C9_FrameStep ==
    setup_done =>
        /\ Len(entities') = Len(entities)
        /\ \A k \in Ents :
              /\ entities'[k].unique_id = entities[k].unique_id
              /\ entities'[k].dispatcher_signal = entities[k].dispatcher_signal
              /\ entities'[k].entity_description = entities[k].entity_description
              /\ (~IsCall \/ k # Head(pending_targets)) => entities'[k] = entities[k]

C9_Frame == [] C9_StateInv /\ [][C9_FrameStep]_vars

\* an entity that has handled two events and holds the transform of the
\* keyed value of the most recent one that had the key, while another
\* entity of the setup has been left untouched
C9_Witness ==
    \E k1 \in Ents, k2 \in Ents :
        /\ delivered[k1] = 2
        /\ last_good[k1] # NoEvent
        /\ entities[k1].native_value =
              ValueFn(entities[k1].entity_description, last_good[k1])
        /\ delivered[k2] = 0
        /\ entities[k2].native_value = Unset

\* C10: a descriptor has hardware_sensor = true exactly when its prefix is
\* the hardware-status prefix, so an entity on a hardware-status signal is
\* keyed by the tracker id and an entity on an activity-status or
\* wellness-status signal by the trackable id.
C10_ScopeMatchesPrefix ==
    /\ \A d \in Descriptors :
          SENSOR_TYPES[d].hardware_sensor
             <=> (SENSOR_TYPES[d].signal_prefix = TRACKER_HARDWARE_STATUS_UPDATED)
    /\ setup_done =>
          \A k \in Ents :
             LET prefix == entities[k].entity_description.signal_prefix
                 item == trackables[entities[k].item_ref]
             IN /\ prefix = TRACKER_HARDWARE_STATUS_UPDATED
                     => entities[k].dispatcher_signal =
                           TRACKER_HARDWARE_STATUS_UPDATED \o "-" \o item.tracker_details.id
                /\ prefix \in { TRACKER_ACTIVITY_STATUS_UPDATED,
                                TRACKER_WELLNESS_STATUS_UPDATED }
                     => entities[k].dispatcher_signal =
                           prefix \o "-" \o item.trackable.id
                /\ prefix \in { TRACKER_HARDWARE_STATUS_UPDATED,
                                TRACKER_ACTIVITY_STATUS_UPDATED,
                                TRACKER_WELLNESS_STATUS_UPDATED }

\* a setup where the tracker-state entity listens on the hardware signal of
\* its tracker and the daily-goal entity on the activity signal of its
\* trackable, the two ids being different
C10_Witness ==
    /\ setup_done
    /\ \E k1 \in Ents, k2 \in Ents :
          /\ entities[k1].item_ref = entities[k2].item_ref
          /\ entities[k1].tracker_id # entities[k1].trackable_id
          /\ entities[k1].entity_description.key = ATTR_TRACKER_STATE
          /\ entities[k1].dispatcher_signal =
                TRACKER_HARDWARE_STATUS_UPDATED \o "-" \o entities[k1].tracker_id
          /\ entities[k2].entity_description.key = ATTR_DAILY_GOAL
          /\ entities[k2].dispatcher_signal =
                TRACKER_ACTIVITY_STATUS_UPDATED \o "-" \o entities[k2].trackable_id

====
